---------------------------- MODULE Spec2Model ----------------------------
(* A state-machine model of src/src/App.js: the page controller (App and   *)
(* generateGames), the game dispatch of the render, and the two quiz       *)
(* widgets (MultipleChoiceGame, FillInTheBlanksGame) with their handlers.  *)
(*                                                                         *)
(* Text that the code inspects character by character (trim, toLowerCase,  *)
(* split) is a sequence of one-character strings; text that the code only  *)
(* compares or concatenates is a TLA+ string.  A JavaScript object used as *)
(* a map ({} with numeric keys) is a function whose DOMAIN is the set of   *)
(* keys that have been written.                                            *)
EXTENDS Naturals, Sequences, FiniteSets, TLC

-----------------------------------------------------------------------------
(* Bounds of the exploration *)

\* longest lesson text typed into the textarea
MaxTextLen == 2
\* longest text typed into a fill-in-the-blank input
MaxAnswerLen == 1
\* number of non-blank submissions explored
MaxSubmits == 2

-----------------------------------------------------------------------------
(* Values *)

\* JavaScript null (the initial gameData)
Null == [null |-> TRUE]

\* the empty object {} of useState({})
EmptyMap == <<>>

\* all sequences over alphabet of length at most n
RECURSIVE SeqsUpTo(_, _)
SeqsUpTo(alphabet, n) ==
    IF n = 0 THEN {<<>>}
    ELSE LET shorter == SeqsUpTo(alphabet, n - 1)
         IN  shorter \cup {Append(s, c) : s \in {t \in shorter : Len(t) = n - 1}, c \in alphabet}

\* characters of the lesson text
TextChars == {" ", "a"}

\* what the textarea can hold
LessonTexts == SeqsUpTo(TextChars, MaxTextLen)

\* characters typed into a blank
AnswerChars == {" ", "P", "p"}

\* what the text input of a blank can hold
TypedValues == SeqsUpTo(AnswerChars, MaxAnswerLen)

\* white space as String.prototype.trim sees it
IsSpace(c) == c = " "

RECURSIVE TrimStart(_)
TrimStart(s) ==
    IF s = <<>> THEN <<>>
    ELSE IF IsSpace(Head(s)) THEN TrimStart(Tail(s)) ELSE s

RECURSIVE TrimEnd(_)
TrimEnd(s) ==
    IF s = <<>> THEN <<>>
    ELSE IF IsSpace(s[Len(s)]) THEN TrimEnd(SubSeq(s, 1, Len(s) - 1)) ELSE s

\* a validation that tests the raw text: if (!lessonText)
Trim_Identity(s) == s

\* String.prototype.trim
Trim(s) == TrimEnd(TrimStart(s))

\* String.prototype.toLowerCase on one character
LowerChar(c) == IF c = "P" THEN "p" ELSE c

\* String.prototype.toLowerCase
ToLowerCase(s) == [k \in 1..Len(s) |-> LowerChar(s[k])]

\* number of parts of sentence.split('_')
RECURSIVE SplitParts(_)
SplitParts(sentence) ==
    IF sentence = <<>> THEN 1
    ELSE (IF Head(sentence) = "_" THEN 1 ELSE 0) + SplitParts(Tail(sentence))

\* obj[key] written: { ...prev, [key]: value }
Put(obj, key, value) ==
    [k \in (DOMAIN obj) \cup {key} |-> IF k = key THEN value ELSE obj[k]]

\* obj[key] is not undefined
Has(obj, key) == key \in DOMAIN obj

-----------------------------------------------------------------------------
(* Game bundles the service can answer with *)

QuestionSun ==
    [question |-> "q-sun", options |-> <<"sun", "moon">>, correctAnswer |-> "sun",
     explanation |-> "e-sun", hint |-> "h-sun"]

QuestionLeaf ==
    [question |-> "q-leaf", options |-> <<"leaf", "Leaf">>, correctAnswer |-> "Leaf",
     explanation |-> "e-leaf"]

\* correctAnswer is not one of the options
QuestionRoot ==
    [question |-> "q-root", options |-> <<"stem", "Root">>, correctAnswer |-> "root",
     explanation |-> "e-root"]

QuestionCell ==
    [question |-> "q-cell", options |-> <<"cell", "wall">>, correctAnswer |-> "cell",
     explanation |-> "e-cell"]

BlankParis ==
    [sentence |-> <<"x", "_">>, answer |-> <<"p">>, explanation |-> "e-paris"]

\* the service answered with an empty answer string
BlankEmpty ==
    [sentence |-> <<"_", "x">>, answer |-> <<>>, explanation |-> "e-empty"]

\* a sentence without a '_' delimiter: no input is rendered for it
BlankNoSlot ==
    [sentence |-> <<"x">>, answer |-> <<"P">>, explanation |-> "e-noslot"]

GameTwoQuestions ==
    [type |-> "multipleChoice", title |-> "t1", description |-> "d1",
     questions |-> <<QuestionSun, QuestionLeaf>>]

GameCrossword ==
    [type |-> "crossword", title |-> "t2", description |-> "d2"]

GameOneBlank ==
    [type |-> "fillInTheBlanks", title |-> "t3", description |-> "d3",
     blanks |-> <<BlankParis>>]

GameTwoBlanks ==
    [type |-> "fillInTheBlanks", title |-> "t4", description |-> "d4",
     blanks |-> <<BlankEmpty, BlankNoSlot>>]

GameRoot ==
    [type |-> "multipleChoice", title |-> "t5", description |-> "d5",
     questions |-> <<QuestionRoot>>]

GameCell ==
    [type |-> "multipleChoice", title |-> "t6", description |-> "d6",
     questions |-> <<QuestionCell>>]

BundleMixed ==
    [lessonSummary |-> "s1", complexity |-> "c1", ageRange |-> "a1",
     games |-> <<GameTwoQuestions, GameCrossword, GameOneBlank>>]

BundleQuiz ==
    [lessonSummary |-> "s2", complexity |-> "c2", ageRange |-> "a2",
     games |-> <<GameTwoBlanks, GameRoot, GameCell>>]

BundleEmpty ==
    [lessonSummary |-> "s3", complexity |-> "c3", ageRange |-> "a3", games |-> <<>>]

\* the JSON values body.json() can resolve to (all of the GameBundle shape)
Bundles == {BundleMixed, BundleQuiz, BundleEmpty}

\* what `await restOperation.response` can reject with: a network failure or a
\* non-2xx response, with a message, with an empty message, or without one
ResponseErrors ==
    {[name |-> "NetworkError", message |-> "Network Error"],
     [name |-> "ApiError", message |-> "Internal Server Error"],
     [name |-> "ApiError", message |-> ""],
     [name |-> "Error"]}

\* what `await body.json()` can reject with: a body that is not JSON
JsonErrors == {[name |-> "SyntaxError", message |-> "Unexpected token"]}

-----------------------------------------------------------------------------
(* State *)

VARIABLES
    lessonText,   \* App: useState('')
    gameData,     \* App: useState(null)
    loading,      \* App: useState(false)
    error,        \* App: useState('')
    pending,      \* the generateGames calls suspended at an await, oldest first
    sessions,     \* the hook state of each mounted game widget, by position in games
    mounted,      \* the React root still shows the page (no render has thrown)
    submits,      \* history: submit events that passed validation
    posts         \* history: POST requests issued

vars == <<lessonText, gameData, loading, error, pending, sessions, mounted, submits, posts>>

pageVars == <<lessonText, gameData, loading, error, pending, submits, posts>>

ValidationMessage == "Please paste or type some lesson content."

FallbackMessage ==
    "Failed to generate games. Please try again. Make sure your serverless function is deployed correctly."

\* a test for the presence of the property only
HasMessage_Present(err) == "message" \in DOMAIN err

\* if (err.message): the property exists and is not the empty string
HasMessage(err) == ("message" \in DOMAIN err) /\ err.message # ""

\* the string built in the catch block
DisplayError(err) ==
    IF HasMessage(err) THEN FallbackMessage \o " Error: " \o err.message
    ELSE FallbackMessage

\* a request that carries the trimmed text
PostInput_Trimmed(text) ==
    [apiName |-> "learn2gameapi", path |-> "/items",
     options |-> [body |-> [lessonText |-> Trim(text)]]]

\* the argument of post(...)
PostInput(text) ==
    [apiName |-> "learn2gameapi", path |-> "/items",
     options |-> [body |-> [lessonText |-> text]]]

\* a submit button without the disabled attribute
SubmitDisabled_Never == FALSE

\* disabled={loading} of the submit button
SubmitDisabled == loading

-----------------------------------------------------------------------------
(* Rendering of the games *)

\* the hook state of a freshly mounted widget
NewSession(game) ==
    IF game.type = "multipleChoice"
    THEN [selectedAnswers |-> EmptyMap, showResults |-> EmptyMap, score |-> 0, submitted |-> FALSE]
    ELSE [userAnswers |-> EmptyMap, showResults |-> EmptyMap, score |-> 0, submitted |-> FALSE]

\* a dispatch whose second branch is missing
Dispatch_MissesBlanks(game, index) ==
    IF game.type = "multipleChoice"
    THEN [component |-> "MultipleChoiceGame", key |-> index, game |-> game]
    ELSE Null

\* the callback of gameData.games.map: the element for one game, or null
Dispatch(game, index) ==
    IF game.type = "multipleChoice"
    THEN [component |-> "MultipleChoiceGame", key |-> index, game |-> game]
    ELSE IF game.type = "fillInTheBlanks"
    THEN [component |-> "FillInTheBlanksGame", key |-> index, game |-> game]
    ELSE Null

\* gameData.games.map(...): one entry per game, in the order of games
RenderGames(games) == [k \in 1..Len(games) |-> Dispatch(games[k], k - 1)]

\* the children React shows: the non-null entries, order kept
Widgets(games) == SelectSeq(RenderGames(games), LAMBDA e : e # Null)

\* {gameData && ...}: the widgets mounted for data, each with fresh hook state
Mount(data) ==
    IF data = Null THEN EmptyMap
    ELSE LET elems == RenderGames(data.games)
         IN  [k \in {j \in DOMAIN elems : elems[j] # Null} |-> NewSession(elems[k].game)]

\* MultipleChoiceGame and FillInTheBlanksGame are created anew by every run of
\* App, so a render of App with changed state replaces every widget by a new
\* instance of a new component type, which starts from fresh hook state
RerenderApp(data) == Mount(data)

-----------------------------------------------------------------------------
(* Page controller *)

Init ==
    /\ lessonText = <<>>
    /\ gameData = Null
    /\ loading = FALSE
    /\ error = ""
    /\ pending = <<>>
    /\ sessions = EmptyMap
    /\ mounted = TRUE
    /\ submits = 0
    /\ posts = 0

\* a request whose body follows the textarea
setLessonText_RewritesRequest(value) ==
    /\ mounted
    /\ value # lessonText
    /\ lessonText' = value
    /\ pending' = [k \in DOMAIN pending |->
                      [pending[k] EXCEPT !.request.options.body.lessonText = value]]
    /\ sessions' = RerenderApp(gameData)
    /\ UNCHANGED <<gameData, loading, error, mounted, submits, posts>>

\* textarea onChange: setLessonText(e.target.value)
setLessonText(value) ==
    /\ mounted
    /\ value # lessonText
    /\ lessonText' = value
    /\ sessions' = RerenderApp(gameData)
    /\ UNCHANGED <<gameData, loading, error, pending, mounted, submits, posts>>

\* a generateGames that does not discard the previous bundle
generateGames_KeepsBundle ==
    /\ mounted
    /\ ~SubmitDisabled
    /\ IF Trim(lessonText) = <<>>
       THEN /\ error' = ValidationMessage
            /\ sessions' = IF error' # error THEN RerenderApp(gameData) ELSE sessions
            /\ UNCHANGED <<lessonText, gameData, loading, pending, mounted, submits, posts>>
       ELSE /\ submits < MaxSubmits
            /\ loading' = TRUE
            /\ error' = ""
            /\ pending' = Append(pending, [id |-> posts + 1, method |-> "POST",
                                           request |-> PostInput(lessonText),
                                           pc |-> "response"])
            /\ posts' = posts + 1
            /\ submits' = submits + 1
            /\ sessions' = RerenderApp(gameData)
            /\ UNCHANGED <<lessonText, gameData, mounted>>

\* a generateGames that does not clear the previous error
generateGames_KeepsError ==
    /\ mounted
    /\ ~SubmitDisabled
    /\ IF Trim(lessonText) = <<>>
       THEN /\ error' = ValidationMessage
            /\ sessions' = IF error' # error THEN RerenderApp(gameData) ELSE sessions
            /\ UNCHANGED <<lessonText, gameData, loading, pending, mounted, submits, posts>>
       ELSE /\ submits < MaxSubmits
            /\ loading' = TRUE
            /\ gameData' = Null
            /\ pending' = Append(pending, [id |-> posts + 1, method |-> "POST",
                                           request |-> PostInput(lessonText),
                                           pc |-> "response"])
            /\ posts' = posts + 1
            /\ submits' = submits + 1
            /\ sessions' = RerenderApp(Null)
            /\ UNCHANGED <<lessonText, error, mounted>>

\* click on the submit button: generateGames up to its first await
generateGames ==
    /\ mounted
    /\ ~SubmitDisabled
    /\ IF Trim(lessonText) = <<>>
       THEN /\ error' = ValidationMessage
            /\ sessions' = IF error' # error THEN RerenderApp(gameData) ELSE sessions
            /\ UNCHANGED <<lessonText, gameData, loading, pending, mounted, submits, posts>>
       ELSE /\ submits < MaxSubmits
            /\ loading' = TRUE
            /\ gameData' = Null
            /\ error' = ""
            /\ pending' = Append(pending, [id |-> posts + 1, method |-> "POST",
                                           request |-> PostInput(lessonText),
                                           pc |-> "response"])
            /\ posts' = posts + 1
            /\ submits' = submits + 1
            /\ sessions' = RerenderApp(Null)
            /\ UNCHANGED <<lessonText, mounted>>

\* pending without its k-th call
Without(calls, k) == SubSeq(calls, 1, k - 1) \o SubSeq(calls, k + 1, Len(calls))

\* a catch block without the finally block
CatchFinally_NoFinally(k, err) ==
    /\ error' = DisplayError(err)
    /\ pending' = Without(pending, k)
    /\ sessions' = RerenderApp(gameData)
    /\ UNCHANGED <<lessonText, gameData, loading, mounted, submits, posts>>

\* catch (err) { ... setError(displayError) } finally { setLoading(false) }
CatchFinally(k, err) ==
    /\ error' = DisplayError(err)
    /\ loading' = FALSE
    /\ pending' = Without(pending, k)
    /\ sessions' = RerenderApp(gameData)
    /\ UNCHANGED <<lessonText, gameData, mounted, submits, posts>>

\* `await restOperation.response` resolves: the call goes on to body.json()
ResponseResolves(k) ==
    /\ k \in DOMAIN pending
    /\ pending[k].pc = "response"
    /\ pending' = [pending EXCEPT ![k].pc = "json"]
    /\ UNCHANGED <<lessonText, gameData, loading, error, sessions, mounted, submits, posts>>

\* `await restOperation.response` rejects with err
ResponseRejects(k, err) ==
    /\ k \in DOMAIN pending
    /\ pending[k].pc = "response"
    /\ CatchFinally(k, err)

\* `await body.json()` resolves with jsonResponse: setGameData, then finally;
\* both updates are made in one continuation and rendered together
JsonResolves(k, jsonResponse) ==
    /\ k \in DOMAIN pending
    /\ pending[k].pc = "json"
    /\ gameData' = jsonResponse
    /\ loading' = FALSE
    /\ pending' = Without(pending, k)
    /\ sessions' = RerenderApp(gameData')
    /\ UNCHANGED <<lessonText, error, mounted, submits, posts>>

\* `await body.json()` rejects with err
JsonRejects(k, err) ==
    /\ k \in DOMAIN pending
    /\ pending[k].pc = "json"
    /\ CatchFinally(k, err)

-----------------------------------------------------------------------------
(* MultipleChoiceGame *)

\* the elements of a sequence
Range(seq) == {seq[k] : k \in DOMAIN seq}

\* a value read from a map is truthy: present and not the empty string
Truthy(obj, key) == Has(obj, key) /\ obj[key] # ""

\* showResults[index] is truthy
Shown(session, index) == Has(session.showResults, index) /\ session.showResults[index]

\* a handleOptionChange that starts the count again
MultipleChoiceGame_handleOptionChange_ResetsScore(session, qIndex, option) ==
    [session EXCEPT !.selectedAnswers = Put(@, qIndex, option),
                    !.showResults = Put(@, qIndex, FALSE),
                    !.score = 0]

\* handleOptionChange(qIndex, option)
MultipleChoiceGame_handleOptionChange(session, qIndex, option) ==
    [session EXCEPT !.selectedAnswers = Put(@, qIndex, option),
                    !.showResults = Put(@, qIndex, FALSE)]

\* the lower-case form of an option text
LowerWord(word) ==
    IF word = "Leaf" THEN "leaf" ELSE IF word = "Root" THEN "root" ELSE word

\* a handleSubmitAnswer that locks the session only on a correct answer
MultipleChoiceGame_handleSubmitAnswer_LocksOnCorrect(session, qIndex, correctAnswer) ==
    [session EXCEPT !.showResults = Put(@, qIndex, TRUE),
                    !.score = IF /\ Has(session.selectedAnswers, qIndex)
                                 /\ session.selectedAnswers[qIndex] = correctAnswer
                                 /\ ~session.submitted
                              THEN @ + 1 ELSE @,
                    !.submitted = IF /\ Has(session.selectedAnswers, qIndex)
                                     /\ session.selectedAnswers[qIndex] = correctAnswer
                                  THEN TRUE ELSE @]

\* a handleSubmitAnswer that compares without regard to case
MultipleChoiceGame_handleSubmitAnswer_IgnoresCase(session, qIndex, correctAnswer) ==
    [session EXCEPT !.showResults = Put(@, qIndex, TRUE),
                    !.score = IF /\ Has(session.selectedAnswers, qIndex)
                                 /\ LowerWord(session.selectedAnswers[qIndex]) = LowerWord(correctAnswer)
                                 /\ ~session.submitted
                              THEN @ + 1 ELSE @,
                    !.submitted = TRUE]

\* a handleSubmitAnswer that scores without looking at submitted
MultipleChoiceGame_handleSubmitAnswer_Unlocked(session, qIndex, correctAnswer) ==
    [session EXCEPT !.showResults = Put(@, qIndex, TRUE),
                    !.score = IF /\ Has(session.selectedAnswers, qIndex)
                                 /\ session.selectedAnswers[qIndex] = correctAnswer
                              THEN @ + 1 ELSE @,
                    !.submitted = TRUE]

\* handleSubmitAnswer(qIndex, correctAnswer)
MultipleChoiceGame_handleSubmitAnswer(session, qIndex, correctAnswer) ==
    [session EXCEPT !.showResults = Put(@, qIndex, TRUE),
                    !.score = IF /\ Has(session.selectedAnswers, qIndex)
                                 /\ session.selectedAnswers[qIndex] = correctAnswer
                                 /\ ~session.submitted
                              THEN @ + 1 ELSE @,
                    !.submitted = TRUE]

\* isCorrect(qIndex, option)
MultipleChoiceGame_isCorrect(session, game, qIndex) ==
    /\ Has(session.selectedAnswers, qIndex)
    /\ session.selectedAnswers[qIndex] = game.questions[qIndex].correctAnswer

\* radio inputs without the disabled attribute
RadioDisabled_Never(session, qIndex) == FALSE

\* the radio inputs of a question: disabled={showResults[qIndex]}
RadioDisabled(session, qIndex) == Shown(session, qIndex)

\* a Check Answer button that stays on the page
MultipleChoiceGame_ButtonRendered_Always(session, qIndex) == TRUE

\* {!showResults[qIndex] && <button ...>}
MultipleChoiceGame_ButtonRendered(session, qIndex) == ~Shown(session, qIndex)

\* a Check Answer button without the disabled attribute
MultipleChoiceGame_ButtonDisabled_Never(session, qIndex) == FALSE

\* disabled={!selectedAnswers[qIndex]}
MultipleChoiceGame_ButtonDisabled(session, qIndex) == ~Truthy(session.selectedAnswers, qIndex)

\* positions of the mounted widgets of one component
WidgetsOfType(type) ==
    IF gameData = Null THEN {}
    ELSE {g \in DOMAIN sessions : gameData.games[g].type = type}

\* the user picks an option of question qIndex of game g
SelectOption(g, qIndex, option) ==
    /\ mounted
    /\ g \in WidgetsOfType("multipleChoice")
    /\ qIndex \in DOMAIN gameData.games[g].questions
    /\ option \in Range(gameData.games[g].questions[qIndex].options)
    /\ ~RadioDisabled(sessions[g], qIndex)
    /\ ~(Has(sessions[g].selectedAnswers, qIndex) /\ sessions[g].selectedAnswers[qIndex] = option)
    /\ sessions' = [sessions EXCEPT ![g] = MultipleChoiceGame_handleOptionChange(@, qIndex, option)]
    /\ UNCHANGED <<pageVars, mounted>>

\* the user clicks Check Answer of question qIndex of game g
CheckQuestion(g, qIndex) ==
    /\ mounted
    /\ g \in WidgetsOfType("multipleChoice")
    /\ qIndex \in DOMAIN gameData.games[g].questions
    /\ MultipleChoiceGame_ButtonRendered(sessions[g], qIndex)
    /\ ~MultipleChoiceGame_ButtonDisabled(sessions[g], qIndex)
    /\ sessions' = [sessions EXCEPT ![g] =
          MultipleChoiceGame_handleSubmitAnswer(@, qIndex, gameData.games[g].questions[qIndex].correctAnswer)]
    /\ UNCHANGED <<pageVars, mounted>>

-----------------------------------------------------------------------------
(* FillInTheBlanksGame *)

\* handleInputChange(blankIndex, value)
FillInTheBlanksGame_handleInputChange(session, blankIndex, value) ==
    [session EXCEPT !.userAnswers = Put(@, blankIndex, value),
                    !.showResults = Put(@, blankIndex, FALSE)]

\* userAnswers[blankIndex]?.toLowerCase() === correctAnswer.toLowerCase()
FillInTheBlanksGame_isCorrect(session, blankIndex, correctAnswer) ==
    /\ Has(session.userAnswers, blankIndex)
    /\ ToLowerCase(session.userAnswers[blankIndex]) = ToLowerCase(correctAnswer)

\* a handleSubmitAnswer that compares the texts as typed
FillInTheBlanksGame_handleSubmitAnswer_CaseSensitive(session, blankIndex, correctAnswer) ==
    [session EXCEPT !.showResults = Put(@, blankIndex, TRUE),
                    !.score = IF /\ Has(session.userAnswers, blankIndex)
                                 /\ session.userAnswers[blankIndex] = correctAnswer
                                 /\ ~session.submitted
                              THEN @ + 1 ELSE @,
                    !.submitted = TRUE]

\* handleSubmitAnswer(blankIndex, correctAnswer)
FillInTheBlanksGame_handleSubmitAnswer(session, blankIndex, correctAnswer) ==
    [session EXCEPT !.showResults = Put(@, blankIndex, TRUE),
                    !.score = IF /\ Has(session.userAnswers, blankIndex)
                                 /\ ToLowerCase(session.userAnswers[blankIndex]) = ToLowerCase(correctAnswer)
                                 /\ ~session.submitted
                              THEN @ + 1 ELSE @,
                    !.submitted = TRUE]

\* a text input is rendered after every part of the sentence but the last
InputRendered(blank) == SplitParts(blank.sentence) > 1

\* value={userAnswers[bIndex] || ''}
InputValue(session, bIndex) ==
    IF Has(session.userAnswers, bIndex) THEN session.userAnswers[bIndex] ELSE <<>>

\* the text input of a blank: disabled={showResults[bIndex]}
InputDisabled(session, bIndex) == Shown(session, bIndex)

\* {!showResults[bIndex] && <button ...>}
FillInTheBlanksGame_ButtonRendered(session, bIndex) == ~Shown(session, bIndex)

\* disabled={!userAnswers[bIndex]?.trim()}
FillInTheBlanksGame_ButtonDisabled(session, bIndex) ==
    ~(Has(session.userAnswers, bIndex) /\ Trim(session.userAnswers[bIndex]) # <<>>)

\* the feedback panel of a shown blank reads q.explanation, and no q is in
\* scope in FillInTheBlanksGame: rendering the panel throws a ReferenceError
FeedbackPanelThrows(session, game) ==
    \E bIndex \in DOMAIN game.blanks : Shown(session, bIndex)

\* the user types value into the input of blank bIndex of game g
TypeAnswer(g, bIndex, value) ==
    /\ mounted
    /\ g \in WidgetsOfType("fillInTheBlanks")
    /\ bIndex \in DOMAIN gameData.games[g].blanks
    /\ InputRendered(gameData.games[g].blanks[bIndex])
    /\ ~InputDisabled(sessions[g], bIndex)
    /\ value # InputValue(sessions[g], bIndex)
    /\ sessions' = [sessions EXCEPT ![g] = FillInTheBlanksGame_handleInputChange(@, bIndex, value)]
    /\ mounted' = ~FeedbackPanelThrows(sessions'[g], gameData.games[g])
    /\ UNCHANGED pageVars

\* the user clicks Check Answer of blank bIndex of game g; the widget is then
\* rendered with the new state, and an error thrown by a render unmounts the
\* whole page (there is no error boundary)
CheckBlank(g, bIndex) ==
    /\ mounted
    /\ g \in WidgetsOfType("fillInTheBlanks")
    /\ bIndex \in DOMAIN gameData.games[g].blanks
    /\ FillInTheBlanksGame_ButtonRendered(sessions[g], bIndex)
    /\ ~FillInTheBlanksGame_ButtonDisabled(sessions[g], bIndex)
    /\ sessions' = [sessions EXCEPT ![g] =
          FillInTheBlanksGame_handleSubmitAnswer(@, bIndex, gameData.games[g].blanks[bIndex].answer)]
    /\ mounted' = ~FeedbackPanelThrows(sessions'[g], gameData.games[g])
    /\ UNCHANGED pageVars

-----------------------------------------------------------------------------
(* The program *)

\* indices of games, questions, blanks and pending calls that can occur
Positions == 1..3

\* option texts of all questions
AllOptions == {"sun", "moon", "leaf", "Leaf", "stem", "Root", "cell", "wall"}

Next ==
    \/ \E value \in LessonTexts : setLessonText(value)
    \/ generateGames
    \/ \E k \in Positions : ResponseResolves(k)
    \/ \E k \in Positions, err \in ResponseErrors : ResponseRejects(k, err)
    \/ \E k \in Positions, jsonResponse \in Bundles : JsonResolves(k, jsonResponse)
    \/ \E k \in Positions, err \in JsonErrors : JsonRejects(k, err)
    \/ \E g \in Positions, qIndex \in Positions, option \in AllOptions : SelectOption(g, qIndex, option)
    \/ \E g \in Positions, qIndex \in Positions : CheckQuestion(g, qIndex)
    \/ \E g \in Positions, bIndex \in Positions, value \in TypedValues : TypeAnswer(g, bIndex, value)
    \/ \E g \in Positions, bIndex \in Positions : CheckBlank(g, bIndex)

Spec == Init /\ [][Next]_vars

\* an outstanding request eventually completes, one way or the other
Completes ==
    \/ \E k \in Positions : ResponseResolves(k)
    \/ \E k \in Positions, err \in ResponseErrors : ResponseRejects(k, err)
    \/ \E k \in Positions, jsonResponse \in Bundles : JsonResolves(k, jsonResponse)
    \/ \E k \in Positions, err \in JsonErrors : JsonRejects(k, err)

LiveSpec == Spec /\ WF_vars(Completes)

-----------------------------------------------------------------------------
(* Vocabulary of the properties *)

\* the games of the displayed bundle
Games == IF gameData = Null THEN <<>> ELSE gameData.games

\* the answerable items of game g
Items(g) ==
    IF Games[g].type = "multipleChoice" THEN DOMAIN Games[g].questions
    ELSE DOMAIN Games[g].blanks

\* responses of a session
Responses(session) ==
    IF "selectedAnswers" \in DOMAIN session THEN session.selectedAnswers ELSE session.userAnswers

\* the expected value of item i of game g
CorrectValue(g, i) ==
    IF Games[g].type = "multipleChoice" THEN Games[g].questions[i].correctAnswer
    ELSE Games[g].blanks[i].answer

\* a text with no character other than white space
IsBlank(text) == \A k \in DOMAIN text : text[k] = " "

\* two texts that differ at most in the case of their letters
SameIgnoringCase(a, b) ==
    /\ Len(a) = Len(b)
    /\ \A k \in 1..Len(a) : a[k] = b[k] \/ {a[k], b[k]} = {"P", "p"}

\* a checkAnswer step on item i of game g
CheckAnswerStep(g, i) == CheckQuestion(g, i) \/ CheckBlank(g, i)

\* some recordResponse step is enabled on item i of game g
RecordResponseEnabled(g, i) ==
    \/ \E v \in AllOptions : ENABLED SelectOption(g, i, v)
    \/ \E v \in TypedValues : ENABLED TypeAnswer(g, i, v)

\* what a recordResponse step with value v does to item i of game g
RecordResponseEffect(g, i, v) ==
    /\ ~Shown(sessions[g], i)
    /\ Responses(sessions'[g])[i] = v
    /\ Has(sessions'[g].showResults, i) /\ sessions'[g].showResults[i] = FALSE
    /\ \A j \in Items(g) \ {i} :
          /\ Has(Responses(sessions'[g]), j) <=> Has(Responses(sessions[g]), j)
          /\ Has(Responses(sessions[g]), j) =>
                Responses(sessions'[g])[j] = Responses(sessions[g])[j]
          /\ Shown(sessions'[g], j) <=> Shown(sessions[g], j)
    /\ sessions'[g].score = sessions[g].score
    /\ sessions'[g].submitted = sessions[g].submitted

-----------------------------------------------------------------------------
-----------------------------------------------------------------------------
(* C2: a submit event with a non-blank lessonText issues exactly one POST   *)
(* request, whose body is { lessonText } with the text as it stands; no     *)
(* other step issues a request (no retry after a success or a failure); and *)
(* while a request is outstanding loading is true and the submit control is *)
(* disabled.                                                                *)
C2_OneRequestPerSubmit ==
    /\ [][/\ (generateGames /\ ~IsBlank(lessonText)) =>
                /\ posts' = posts + 1
                /\ Len(pending') = Len(pending) + 1
                /\ pending'[Len(pending')].method = "POST"
                /\ pending'[Len(pending')].request.path = "/items"
                /\ pending'[Len(pending')].request.options.body = [lessonText |-> lessonText]
          /\ ~(generateGames /\ ~IsBlank(lessonText)) =>
                /\ posts' = posts
                /\ Len(pending') <= Len(pending)]_vars
    /\ [](posts = submits)
    /\ [](pending # <<>> => (loading /\ SubmitDisabled))

\* a second request is outstanding after the first one failed: no retry was made
C2_Witness ==
    /\ posts = 2 /\ submits = 2
    /\ Len(pending) = 1
    /\ pending[1].request.options.body = [lessonText |-> <<" ", "a">>]
    /\ loading

(* C3: a submit event with an empty or whitespace-only lessonText issues no *)
(* request and sets error to the validation message; loading and the stored *)
(* gameData are left as they are.                                           *)
C3_BlankSubmitRejected ==
    [][(generateGames /\ IsBlank(lessonText)) =>
          /\ pending' = pending
          /\ posts' = posts
          /\ error' = "Please paste or type some lesson content."
          /\ loading' = loading
          /\ gameData' = gameData]_vars

\* a whitespace-only text was submitted while a bundle is displayed
C3_Witness ==
    /\ lessonText = <<" ", " ">>
    /\ error = ValidationMessage
    /\ gameData = BundleMixed
    /\ ~loading
    /\ pending = <<>>

(* C4: when body.json() of a submission resolves with a game bundle, the    *)
(* state after it has gameData equal to that bundle, error empty and        *)
(* loading false.                                                           *)
C4_SuccessStoresBundle ==
    [][\A k \in Positions, b \in Bundles :
          JsonResolves(k, b) => (gameData' = b /\ error' = "" /\ loading' = FALSE)]_vars

\* the bundle that answered a second submission is displayed
C4_Witness ==
    /\ gameData = BundleQuiz
    /\ error = ""
    /\ ~loading
    /\ posts = 2

(* C5: when the request of a submission fails (the response rejects, or the *)
(* body is not JSON), the state after it has gameData unset, loading false, *)
(* and error equal to the fallback sentence, followed by " Error: " and the *)
(* message exactly when the error has a non-empty message.                  *)
C5_FailureSetsError ==
    [][\A k \in Positions, err \in ResponseErrors \cup JsonErrors :
          (ResponseRejects(k, err) \/ JsonRejects(k, err)) =>
              /\ gameData' = Null
              /\ loading' = FALSE
              /\ error' # ""
              /\ error' = IF "message" \in DOMAIN err /\ err.message # ""
                          THEN "Failed to generate games. Please try again. Make sure your serverless function is deployed correctly."
                               \o " Error: " \o err.message
                          ELSE "Failed to generate games. Please try again. Make sure your serverless function is deployed correctly."]_vars

\* a request failed with an error that carries no message
C5_Witness ==
    /\ error = FallbackMessage
    /\ gameData = Null
    /\ ~loading
    /\ posts >= 1

\* a request failed with an error that carries a message
C5_WitnessMessage ==
    /\ error = FallbackMessage \o " Error: Unexpected token"
    /\ gameData = Null
    /\ ~loading

(* C6: the submit control is disabled exactly when loading is true, loading *)
(* is true exactly when a request is outstanding, at most one request is    *)
(* outstanding, and an outstanding request is that of the most recent       *)
(* submission (so the response that is stored belongs to it).               *)
C6_SingleOutstandingRequest ==
    /\ SubmitDisabled <=> loading
    /\ loading <=> pending # <<>>
    /\ Len(pending) <= 1
    /\ \A k \in DOMAIN pending : pending[k].id = posts /\ posts = submits

\* the second submission is outstanding; the first one has completed
C6_Witness ==
    /\ loading
    /\ Len(pending) = 1
    /\ pending[1].id = 2
    /\ pending[1].pc = "json"

(* C7: under LiveSpec (an outstanding request eventually completes), every  *)
(* state with loading true is followed by a state with loading false in     *)
(* which the page is shown and the submit control is enabled, whichever way *)
(* the request ends.                                                        *)
C7_ReturnsToIdle ==
    loading ~> (~loading /\ ~SubmitDisabled /\ mounted /\ pending = <<>>)

\* the page is idle again after a body that could not be decoded
C7_Witness ==
    /\ ~loading
    /\ ~SubmitDisabled
    /\ mounted
    /\ posts = 1
    /\ error = FallbackMessage \o " Error: Unexpected token"

(* C8: in a fill-in-the-blank session a checkAnswer step treats the stored  *)
(* response as correct exactly when response and answer are equal up to the *)
(* case of their letters, and increments score exactly when it is correct   *)
(* and the session is not locked; a blank whose response is unset or empty  *)
(* is never shown as checked, and score is only ever credited for a shown   *)
(* blank with a non-empty matching response.                                *)
C8_CaseInsensitiveMatch ==
    /\ [][\A g \in Positions, b \in Positions :
             CheckBlank(g, b) =>
                LET response == sessions[g].userAnswers[b]
                    answer == Games[g].blanks[b].answer
                IN  /\ FillInTheBlanksGame_isCorrect(sessions'[g], b, answer)
                          <=> SameIgnoringCase(response, answer)
                    /\ sessions'[g].score = sessions[g].score + 1
                          <=> (SameIgnoringCase(response, answer) /\ ~sessions[g].submitted)
                    /\ sessions'[g].score \in {sessions[g].score, sessions[g].score + 1}]_vars
    /\ [](\A g \in WidgetsOfType("fillInTheBlanks") :
             /\ \A b \in Items(g) :
                   Shown(sessions[g], b) =>
                       (Has(sessions[g].userAnswers, b) /\ sessions[g].userAnswers[b] # <<>>)
             /\ sessions[g].score >= 1 =>
                   \E b \in Items(g) :
                       /\ Shown(sessions[g], b)
                       /\ sessions[g].userAnswers[b] # <<>>
                       /\ SameIgnoringCase(sessions[g].userAnswers[b], Games[g].blanks[b].answer))

\* the response "P" was checked against the answer "p" and scored
C8_Witness ==
    /\ gameData = BundleMixed
    /\ Has(sessions[3].userAnswers, 1)
    /\ sessions[3].userAnswers[1] = <<"P">>
    /\ GameOneBlank.blanks[1].answer = <<"p">>
    /\ Shown(sessions[3], 1)
    /\ sessions[3].score = 1

C10_WidgetsFollowGames ==
    /\ gameData # Null =>
         LET w == Widgets(gameData.games)
             known == {k \in DOMAIN gameData.games :
                          gameData.games[k].type \in {"multipleChoice", "fillInTheBlanks"}}
         IN  /\ Len(w) = Cardinality(known)
             /\ {w[j].key + 1 : j \in DOMAIN w} = known
             /\ \A j \in DOMAIN w :
                   /\ w[j].game = gameData.games[w[j].key + 1]
                   /\ w[j].component =
                         (IF w[j].game.type = "multipleChoice" THEN "MultipleChoiceGame"
                          ELSE "FillInTheBlanksGame")
             /\ \A j, l \in DOMAIN w : j < l => w[j].key < w[l].key
             /\ DOMAIN sessions = known
    /\ ~mounted =>
         \E g \in WidgetsOfType("fillInTheBlanks") : \E b \in Items(g) : Shown(sessions[g], b)

\* a bundle with a game of an unknown type between two known ones is shown
C10_Witness ==
    /\ gameData = BundleMixed
    /\ mounted
    /\ Len(Widgets(gameData.games)) = 2
    /\ DOMAIN sessions = {1, 3}
    /\ gameData.games[2].type = "crossword"

-----------------------------------------------------------------------------
(* C11: within a session score never decreases: every recordResponse or     *)
(* checkAnswer step leaves the score of every session at least what it was. *)
C11_ScoreNeverDecreases ==
    [][UNCHANGED pageVars =>
          \A g \in DOMAIN sessions : sessions'[g].score >= sessions[g].score]_vars

\* after scoring on the first question, the second one was answered wrongly
\* and checked
C11_Witness ==
    /\ gameData = BundleMixed
    /\ sessions[1].score = 1
    /\ Shown(sessions[1], 1) /\ Shown(sessions[1], 2)
    /\ MultipleChoiceGame_isCorrect(sessions[1], GameTwoQuestions, 1)
    /\ ~MultipleChoiceGame_isCorrect(sessions[1], GameTwoQuestions, 2)

(* C12: checkAnswer is enabled only on an item with a stored response (for  *)
(* a blank: one that is not empty or white space only), and on the page an  *)
(* unrevealed question with a selected option can be checked; so no item is *)
(* ever revealed without a stored response.                                 *)
C12_CheckNeedsResponse ==
    /\ \A g \in WidgetsOfType("multipleChoice") : \A i \in Items(g) :
          /\ ENABLED CheckQuestion(g, i) => Has(sessions[g].selectedAnswers, i)
          /\ (mounted /\ Has(sessions[g].selectedAnswers, i) /\ ~Shown(sessions[g], i))
                => ENABLED CheckQuestion(g, i)
          /\ Shown(sessions[g], i) => Has(sessions[g].selectedAnswers, i)
    /\ \A g \in WidgetsOfType("fillInTheBlanks") : \A i \in Items(g) :
          /\ ENABLED CheckBlank(g, i) =>
                (Has(sessions[g].userAnswers, i) /\ ~IsBlank(sessions[g].userAnswers[i]))
          /\ (mounted /\ Has(sessions[g].userAnswers, i) /\ ~IsBlank(sessions[g].userAnswers[i])
                /\ ~Shown(sessions[g], i)) => ENABLED CheckBlank(g, i)
          /\ Shown(sessions[g], i) =>
                (Has(sessions[g].userAnswers, i) /\ ~IsBlank(sessions[g].userAnswers[i]))

\* one question is revealed, the other has no response yet and cannot be
\* checked; a blank holds white space only and cannot be checked either
C12_Witness ==
    /\ gameData = BundleMixed
    /\ mounted
    /\ Shown(sessions[1], 1)
    /\ ~Has(sessions[1].selectedAnswers, 2)
    /\ ~ENABLED CheckQuestion(1, 2)
    /\ Has(sessions[3].userAnswers, 1) /\ sessions[3].userAnswers[1] = <<" ">>
    /\ ~ENABLED CheckBlank(3, 1)

(* C13: a check of a multiple-choice question marks it correct exactly when *)
(* the stored response is the same string as correctAnswer, case included,  *)
(* and increments score exactly when it is correct and the session is not   *)
(* locked; a question whose correctAnswer is not among its options is never *)
(* correct, and score is only ever credited for a revealed question whose   *)
(* response is its correctAnswer.                                           *)
C13_StrictEquality ==
    /\ [][UNCHANGED pageVars =>
             \A g \in WidgetsOfType("multipleChoice") : \A i \in Items(g) :
                CheckQuestion(g, i) =>
                   LET response == sessions[g].selectedAnswers[i]
                       expected == Games[g].questions[i].correctAnswer
                   IN  /\ MultipleChoiceGame_isCorrect(sessions'[g], Games[g], i)
                             <=> response = expected
                       /\ sessions'[g].score = sessions[g].score + 1
                             <=> (response = expected /\ ~sessions[g].submitted)
                       /\ sessions'[g].score \in {sessions[g].score, sessions[g].score + 1}]_vars
    /\ [](\A g \in WidgetsOfType("multipleChoice") :
             /\ \A i \in Items(g) :
                   Games[g].questions[i].correctAnswer \notin Range(Games[g].questions[i].options)
                       => ~MultipleChoiceGame_isCorrect(sessions[g], Games[g], i)
             /\ sessions[g].score >= 1 =>
                   \E i \in Items(g) :
                       /\ Shown(sessions[g], i)
                       /\ sessions[g].selectedAnswers[i] = Games[g].questions[i].correctAnswer
                       /\ Games[g].questions[i].correctAnswer \in Range(Games[g].questions[i].options))

\* the option "Root" was checked against the correctAnswer "root"
C13_Witness ==
    /\ gameData = BundleQuiz
    /\ Has(sessions[2].selectedAnswers, 1) /\ sessions[2].selectedAnswers[1] = "Root"
    /\ GameRoot.questions[1].correctAnswer = "root"
    /\ Shown(sessions[2], 1)
    /\ sessions[2].score = 0
    /\ sessions[2].submitted

(* C14: an edit of lessonText while a request is outstanding leaves the     *)
(* request, loading, error and gameData as they are, and what a completion  *)
(* stores is decided by the response alone.                                 *)
C14_EditDuringRequest ==
    [][/\ \A v \in LessonTexts :
             (setLessonText(v) /\ pending # <<>>) =>
                /\ pending' = pending
                /\ loading' = loading /\ error' = error /\ gameData' = gameData
       /\ \A k \in DOMAIN pending :
             /\ \A b \in Bundles : JsonResolves(k, b) => (gameData' = b /\ error' = "")
             /\ \A err \in ResponseErrors \cup JsonErrors :
                   (ResponseRejects(k, err) \/ JsonRejects(k, err)) =>
                      /\ gameData' = Null
                      /\ error' \in {FallbackMessage} \cup
                            (IF "message" \in DOMAIN err
                             THEN {FallbackMessage \o " Error: " \o err.message} ELSE {})]_vars

\* the text was edited after the submission: the request still carries the
\* text of the submit event
C14_Witness ==
    /\ Len(pending) = 1
    /\ pending[1].request.options.body.lessonText = <<"a">>
    /\ lessonText = <<" ", " ">>
    /\ loading /\ error = "" /\ gameData = Null

(* C15: every game of a displayed bundle starts with its own session with  *)
(* no responses, nothing revealed, score 0 and not locked; a recordResponse *)
(* or checkAnswer step on one game changes that game's session only: every  *)
(* other game's session stays on the page as it was, and the page state is  *)
(* unchanged.                                                               *)
C15_SessionsIndependent ==
    [][/\ \A k \in DOMAIN pending, b \in Bundles :
             JsonResolves(k, b) =>
                \A g \in DOMAIN sessions' :
                   /\ Responses(sessions'[g]) = EmptyMap
                   /\ sessions'[g].showResults = EmptyMap
                   /\ sessions'[g].score = 0
                   /\ sessions'[g].submitted = FALSE
       /\ \A g \in DOMAIN sessions : \A i \in Items(g) :
             (CheckAnswerStep(g, i) \/ (UNCHANGED pageVars /\ sessions'[g] # sessions[g])) =>
                /\ DOMAIN sessions' = DOMAIN sessions
                /\ \A h \in DOMAIN sessions \ {g} : sessions'[h] = sessions[h]
                /\ mounted'
                /\ UNCHANGED <<lessonText, loading, error, gameData>>]_vars

(* C15, for the steps that do not check a blank: the same statement holds   *)
(* of recordResponse on any game and of checkAnswer on a question.          *)
C15_IndependentExceptBlankCheck ==
    [][\A g \in DOMAIN sessions :
          (/\ UNCHANGED pageVars
           /\ ~\E i \in Items(g) : CheckBlank(g, i)
           /\ sessions'[g] # sessions[g]) =>
             /\ DOMAIN sessions' = DOMAIN sessions
             /\ \A h \in DOMAIN sessions \ {g} : sessions'[h] = sessions[h]
             /\ mounted']_vars

(* C16: a blank revealed by checkAnswer is shown on the page with its       *)
(* feedback: revealing raises no error, so wherever a blank is revealed the *)
(* page is still mounted.                                                   *)
C16_RevealedBlankIsShown ==
    \A g \in WidgetsOfType("fillInTheBlanks") : \A b \in Items(g) :
        Shown(sessions[g], b) => mounted

(* C17: while loading is true, error is empty and gameData is unset: a      *)
(* submission that passes validation clears both before the request is in   *)
(* flight, and no step changes them while loading stays true.               *)
C17_LoadingMeansCleared ==
    /\ [](loading => (error = "" /\ gameData = Null /\ sessions = EmptyMap))
    /\ [][/\ (generateGames /\ ~IsBlank(lessonText)) => (error' = "" /\ gameData' = Null)
          /\ (loading /\ loading') => (error' = error /\ gameData' = gameData)]_vars

\* a second submission is in flight; the first one had put a bundle or an
\* error on the page
C17_Witness ==
    /\ loading
    /\ posts = 2
    /\ error = "" /\ gameData = Null
    /\ lessonText = <<"a", "a">>

(* C18: while a bundle is displayed, an edit of lessonText and a submit     *)
(* rejected by validation leave every game's session as it was.             *)
C18_PageEventsKeepSessions ==
    [][(/\ gameData # Null
        /\ \/ \E v \in LessonTexts : setLessonText(v)
           \/ (generateGames /\ IsBlank(lessonText)))
          => sessions' = sessions]_vars

(* C19: a revealed item has its inputs disabled and its Check Answer button *)
(* removed, so neither recordResponse nor checkAnswer is enabled on it;     *)
(* within a session a revealed item stays revealed, and a check step is     *)
(* only ever taken on an item that is not revealed yet.                     *)
C19_RevealedIsFinal ==
    /\ [](\A g \in DOMAIN sessions : \A i \in Items(g) :
             Shown(sessions[g], i) =>
                /\ IF Games[g].type = "multipleChoice"
                   THEN /\ RadioDisabled(sessions[g], i)
                        /\ ~MultipleChoiceGame_ButtonRendered(sessions[g], i)
                   ELSE /\ InputDisabled(sessions[g], i)
                        /\ ~FillInTheBlanksGame_ButtonRendered(sessions[g], i)
                /\ ~RecordResponseEnabled(g, i)
                /\ ~ENABLED CheckAnswerStep(g, i))
    /\ [][UNCHANGED pageVars =>
             \A g \in DOMAIN sessions : \A i \in Items(g) :
                /\ Shown(sessions[g], i) => Shown(sessions'[g], i)
                /\ CheckAnswerStep(g, i) => (~Shown(sessions[g], i) /\ Shown(sessions'[g], i))]_vars

\* on the page, one question is revealed while the other can still be answered
C19_Witness ==
    /\ gameData = BundleMixed
    /\ mounted
    /\ Shown(sessions[1], 2)
    /\ ~ENABLED CheckAnswerStep(1, 2)
    /\ ~RecordResponseEnabled(1, 2)
    /\ RecordResponseEnabled(1, 1)

=============================================================================
